---- MODULE Spec2Model ----
(***************************************************************************)
(* Crawl-orchestration engine of the chatbot scraper backend:              *)
(*   fetch_url_with_scraperapi            (fetch client, retry/backoff)    *)
(*   process_single_site_for_spider_crawl (site spider, BFS frontier)      *)
(*   process_spider_crawl_batch_endpoint_logic           (multi-site)      *)
(*   process_duckduckgo_search_and_scrape_endpoint_logic (search+scrape)   *)
(*   api_spider_crawl_batch / api_duckduckgo_scrape      (HTTP boundary)   *)
(*                                                                         *)
(* Strings are sequences of pieces; a piece is a run of characters of one  *)
(* kind with its length, so that len(), join(), re.sub() and strip() are   *)
(* computed on them the way the code computes them on text.  Page bodies   *)
(* are opaque text: they carry a length, no leading or trailing blanks     *)
(* and no diagnostic phrase of the filter catalogue.                       *)
(*                                                                         *)
(* One step of the model is the code between two suspension points of the  *)
(* event loop (await client.get, await asyncio.sleep, await gather).       *)
(***************************************************************************)
EXTENDS Integers, Sequences, FiniteSets, TLC

\* ------------------------------------------------------------------ bounds
MaxKeys == 2
MaxUrls == 3
MaxDepth == 1
MaxPages == 2
MaxResults == 2
MaxRetries == 1
SitePages == 2
FrontierDepth == 2
FrontierPages == 3
LinkPaths == 2
MaxReturn == 2
MaxATags == 3
UrlLen == 20
TitleLen == 10
WideKeys == 6
WideUrls == 6

\* -------------------------------------------------------- config.py values
MAX_CONCURRENT_SCRAPES == 5
MIN_CONTENT_LENGTH_FOR_SUMMARY == 250
DEFAULT_MAX_LINKS_PER_PAGE_SPIDER == 3

\* names scraper_service.py binds from config.py
ImportedNames ==
  {"VALID_SCRAPER_API_KEYS", "SCRAPER_API_TIMEOUT", "MIN_CONTENT_LENGTH_FOR_SUMMARY",
   "DEFAULT_USER_AGENT", "MAX_CONCURRENT_SCRAPES"}

\* the credential pool of size K: key ids 1..K in configuration order
VALID_SCRAPER_API_KEYS(K) == [i \in 1..K |-> i]

Min(a, b) == IF a <= b THEN a ELSE b

MinOf3(a, b, c) == Min(a, Min(b, c))

\* ------------------------------------------------------------------ URLs
\* a URL is <<site, page>>; page 0 is the site's base URL
NoUrl == <<0, 0>>

BaseUrl(site) == <<site, 0>>

\* ---------------------------------------------------------------- strings
Piece(k, u, n, t) == [k |-> k, u |-> u, n |-> n, t |-> t]

Nl(n) == Piece("nl", NoUrl, n, 0)

Dashes == Piece("dashes", NoUrl, 3, 0)

RECURSIVE Digits(_)
Digits(n) == IF n < 10 THEN 1 ELSE 1 + Digits(n \div 10)

RECURSIVE StrLen(_)
StrLen(s) == IF s = <<>> THEN 0 ELSE Head(s).n + StrLen(Tail(s))

RECURSIVE Join(_, _)
Join(parts, sep) ==
  IF parts = <<>> THEN <<>>
  ELSE IF Len(parts) = 1 THEN Head(parts)
  ELSE Head(parts) \o sep \o Join(Tail(parts), sep)

RECURSIVE LStrip(_)
LStrip(s) ==
  IF s = <<>> THEN <<>>
  ELSE IF Head(s).k = "nl" THEN LStrip(Tail(s)) ELSE s

RECURSIVE RStrip(_)
RStrip(s) ==
  IF s = <<>> THEN <<>>
  ELSE IF s[Len(s)].k = "nl" THEN RStrip(SubSeq(s, 1, Len(s) - 1)) ELSE s

Strip(s) == RStrip(LStrip(s))

\* exception texts, str(e)
ExcTextLen(x) == IF x = "NameError" THEN 55 ELSE 30

\* f"### Content from: {current_url}\n{extracted_markdown}"
SpiderContentBlock(url, ext) == <<Piece("content", url, 18 + UrlLen + 1 + ext, ext)>>

\* f"### Low/No substantial content from: {current_url} (Readability output length: {n})"
SpiderLowBlock(url, ext) == <<Piece("low", url, 37 + UrlLen + 29 + Digits(ext) + 1, ext)>>

\* f"No content gathered from {base_url} or its subpages."
NoContentSentinel(url) == <<Piece("sentinel", url, 25 + UrlLen + 17, 0)>>

\* f"### Major error processing {processed_url}\n{str(res_or_exc)}"
MajorErrorBlock(url, x) ==
  <<Piece("major", url, 27 + UrlLen, 0), Nl(1), Piece("exc", url, ExcTextLen(x), 0)>>

\* f"### Content from: {title} ({url})\n{raw_response_text}"
SearchContentBlock(url, body) ==
  <<Piece("content", url, 18 + TitleLen + 2 + UrlLen + 2 + body, body)>>

SiteSeparator == <<Nl(2), Dashes, Nl(2)>>

BatchSeparator == <<Nl(2)>>

\* ------------------------------------------------------------ fetch client
\* error_message of a fetch result: which f-string built it, the HTTP status
\* its text names (0: none) and the exception whose str() it embeds
Msg(m, st, x) == [m |-> m, st |-> st, x |-> x]

NoMsg == Msg("none", 0, "none")

\* the dictionary fetch_url_with_scraperapi returns; raw_response_text is the
\* body's length, -1 for None
FetchResult(raw, status, msg, url, key, critical) ==
  [raw_response_text |-> raw, status_code |-> status, error_message |-> msg,
   final_url |-> url, key_used |-> key, is_critical_error |-> critical]

NoFetchResult == FetchResult(-1, 0, NoMsg, NoUrl, 0, FALSE)

\* what one step of the fetch coroutine ends with: it returns a result, it
\* suspends (on client.get or asyncio.sleep), or an exception leaves it
Returns(r) == [act |-> "return", result |-> r, delay |-> 0, x |-> "none"]

Sleeps(d) == [act |-> "sleep", result |-> NoFetchResult, delay |-> d, x |-> "none"]

AwaitsGet == [act |-> "get", result |-> NoFetchResult, delay |-> 0, x |-> "none"]

Raises(x) == [act |-> "raise", result |-> NoFetchResult, delay |-> 0, x |-> x]

\* api_key.startswith("YOUR_SCRAPERAPI_KEY_") or empty: key id 0
IsPlaceholderKey(key) == key = 0

\* httpx.Response.text is a str property (line 98 reads it as one), so the
\* call response.text() of lines 78, 83 and 94 raises TypeError
ResponseTextIsCallable == FALSE

\* except Exception (lines 112-115)
UnexpectedError(url, key, x, st) ==
  FetchResult(-1, 0, Msg("unexpected", st, x), url, key, TRUE)

\* a result dictionary whose raw_response_text is await response.text()
WithResponseText(url, key, status, msg) ==
  IF ResponseTextIsCallable
  THEN FetchResult(0, status, msg, url, key, TRUE)
  ELSE UnexpectedError(url, key, "TypeError", 0)

RetryableStatuses == {429, 500, 502, 503, 504}

\* lines 41-63: up to the first suspension of one call frame; the client is
\* built outside the try block
FetchEnter(url, key, client_ok) ==
  IF IsPlaceholderKey(key)
  THEN Returns(FetchResult(-1, 0, Msg("invalid_key", 0, "none"), url, key, TRUE))
  ELSE IF ~client_ok THEN Raises("ClientError")
  ELSE AwaitsGet

\* lines 66-115: client.get has answered with reply
FetchOnReply(url, key, retry_count, max_retries, reply) ==
  IF reply.t = "timeout"
  THEN Returns(FetchResult(-1, 0, Msg("timeout", 0, "TimeoutException"), url, key,
                           retry_count >= max_retries))
  ELSE IF reply.t = "request_error"
  THEN IF retry_count < max_retries
       THEN Sleeps((retry_count + 1) * 2)
       ELSE Returns(FetchResult(-1, 0, Msg("network", 0, "RequestError"), url, key, TRUE))
  ELSE IF reply.status = 401
  THEN Returns(WithResponseText(url, key, 401, Msg("failed_401", 401, "none")))
  ELSE IF reply.status = 403
  THEN Returns(WithResponseText(url, key, 403, Msg("forbidden_403", 403, "none")))
  ELSE IF reply.status \in RetryableStatuses
  THEN IF retry_count < max_retries
       THEN Sleeps((retry_count + 1) * 3)
       ELSE Returns(WithResponseText(url, key, reply.status,
                                     Msg("max_retries", reply.status, "none")))
  ELSE IF reply.status >= 400
  THEN Returns(UnexpectedError(url, key, "HTTPStatusError", reply.status))
  ELSE Returns(FetchResult(reply.body, reply.status, NoMsg, url, key, FALSE))

\* lines 90 and 110: the recursive call after the sleep, made inside the
\* caller's try block
FetchRetry(url, key, client_ok) ==
  LET inner == FetchEnter(url, key, client_ok)
  IN IF inner.act = "raise" THEN Returns(UnexpectedError(url, key, inner.x, 0))
     ELSE inner

\* ---------------------------------------------------------- error strings
\* one entry of site_errors / all_errors: which f-string built it, the URL it
\* names, the status it prints and the error_message it embeds
Err(k, u, st, msg) == [k |-> k, u |-> u, st |-> st, msg |-> msg]

\* ------------------------------------------------------------- site spider
\* a coroutine of a batch: a site spider, or a direct fetch; the fields are
\* the locals of process_single_site_for_spider_crawl and of the running
\* fetch_url_with_scraperapi frame
NewTask(kind, url, key, max_depth, max_links, retry_count, max_retries) ==
  [kind |-> kind, url |-> url, key |-> key, pc |-> "ready",
   max_depth |-> max_depth, max_links |-> max_links,
   queue |-> IF kind = "spider" THEN << <<url, 0>> >> ELSE <<>>,
   enqueued |-> IF kind = "spider" THEN << <<url, 0>> >> ELSE <<>>,
   internal_links |-> <<>>,
   visited |-> {}, processed_page_count |-> 0,
   site_content_parts |-> <<>>, site_errors |-> <<>>,
   current_url |-> url, current_d |-> 0,
   retry_count |-> retry_count, max_retries |-> max_retries, delay |-> 0,
   calls |-> 0, last_status |-> 0, fetched |-> <<>>,
   fetch_result |-> NoFetchResult, exc |-> "none"]

\* the links extract_relevant_internal_links may return for a page of a site:
\* lists without repetition of at most max_links_to_return same-site URLs
LinkLists(site, max_links_to_return) ==
  LET urls == {<<site, p>> : p \in 0..SitePages}
  IN {l \in UNION {[1..n -> urls] : n \in 0..Min(max_links_to_return, SitePages + 1)} :
        \A i, j \in 1..Len(l) : i # j => l[i] # l[j]}

HasRoomAlways(visited, queue, max_links) == TRUE

\* line 181: len(visited_on_this_site) + len(queue) < max_links_to_crawl_per_site * 1.5
HasRoom(visited, queue, max_links) == 2 * (Cardinality(visited) + Len(queue)) < 3 * max_links

IsNewLinkIfUnvisited(link, visited, queue) == link \notin visited

\* line 182: link not in visited_on_this_site and not any(q_item[0] == link ...)
IsNewLink(link, visited, queue) == link \notin visited /\ ~\E j \in 1..Len(queue) : queue[j][1] = link

PushFrontierFront(queue, entry) == <<entry>> \o queue

\* line 183: queue.append((link, current_d + 1))
PushFrontier(queue, entry) == Append(queue, entry)

\* lines 180-183
RECURSIVE EnqueueLinks(_, _, _, _, _)
EnqueueLinks(queue, visited, links, current_d, max_links) ==
  IF links = <<>> THEN queue
  ELSE LET link == Head(links)
           room == HasRoom(visited, queue, max_links)
           fresh == IsNewLink(link, visited, queue)
       IN EnqueueLinks(IF room /\ fresh THEN PushFrontier(queue, <<link, current_d + 1>>) ELSE queue,
                       visited, Tail(links), current_d, max_links)

\* the links that went into the frontier, in the order in which the loop of
\* line 180 appended them
NewEntries(before, after, links) ==
  SelectSeq(links, LAMBDA l : /\ \E j \in 1..Len(after) : after[j][1] = l
                              /\ \A j \in 1..Len(before) : before[j][1] # l)

FetchFailedNever(fetch_result) == FALSE

\* lines 155 and 320: if fetch_result['error_message']
FetchFailed(fetch_result) == fetch_result.error_message # NoMsg

\* line 157: if fetch_result.get('is_critical_error'): break
AbortsSite(fetch_result) == fetch_result.is_critical_error

IsSubstantialIfAny(n) == n > 0

\* lines 171 and 325: text and len(text) > MIN_CONTENT_LENGTH_FOR_SUMMARY / 2
IsSubstantial(n) == n > 0 /\ 2 * n > MIN_CONTENT_LENGTH_FOR_SUMMARY

WithinPageBudgetOffByOne(count, max_links) == count <= max_links

CountPageNever(count) == count

\* line 149: processed_page_count += 1
CountPage(count) == count + 1

\* the page budget of the while loop, line 140
WithinPageBudget(count, max_links) == count < max_links

\* the depth check of line 145
TooDeep(d, max_depth) == d > max_depth

\* the task has an HTTP call in flight; calls counts those of the running
\* fetch, last_status is the status of the answer to the last one (0: none)
IssueGet(t) == [t EXCEPT !.pc = "http", !.calls = @ + 1, !.last_status = 0]

\* the fetch has returned: its frames are gone
EndFetch(t) == [t EXCEPT !.retry_count = 0, !.max_retries = 0, !.delay = 0, !.calls = 0]

RECURSIVE SpiderLoop(_, _)
RECURSIVE SpiderOnResult(_, _, _, _, _)
RECURSIVE SpiderAfterLinks(_, _, _)

\* lines 140-153: the loop head, down to the first suspension of the fetch
SpiderLoop(t, client_ok) ==
  IF t.queue = <<>> \/ ~WithinPageBudget(t.processed_page_count, t.max_links)
  THEN [t EXCEPT !.pc = "done"]
  ELSE LET cur == Head(t.queue)
           popped == [t EXCEPT !.queue = Tail(@)]
       IN IF cur[1] \in t.visited THEN SpiderLoop(popped, client_ok)
          ELSE IF TooDeep(cur[2], t.max_depth) THEN SpiderLoop(popped, client_ok)
          ELSE LET t1 == [popped EXCEPT !.visited = @ \cup {cur[1]},
                                        !.processed_page_count = CountPage(@),
                                        !.current_url = cur[1], !.current_d = cur[2],
                                        !.fetched = Append(@, cur),
                                        !.retry_count = 0, !.max_retries = 1]
                   enter == FetchEnter(cur[1], t.key, client_ok)
               IN IF enter.act = "get" THEN IssueGet(t1)
                  ELSE IF enter.act = "raise"
                  THEN [EndFetch(t1) EXCEPT !.pc = "raised", !.exc = enter.x]
                  ELSE SpiderOnResult(EndFetch(t1), enter.result, 0, <<>>, client_ok)

\* lines 155-183: the fetch of current_url has returned fetch_result; ext is
\* the length of what get_main_content_from_html extracts, links what
\* extract_relevant_internal_links returns
SpiderOnResult(t0, fetch_result, ext, links, client_ok) ==
  LET t == [t0 EXCEPT !.fetch_result = fetch_result]
  IN
  IF FetchFailed(fetch_result)
  THEN LET t1 == [t EXCEPT !.site_errors =
                     Append(@, Err("fetch_error", t.current_url, fetch_result.status_code,
                                   fetch_result.error_message))]
       IN IF AbortsSite(fetch_result) THEN [t1 EXCEPT !.pc = "done"]
          ELSE SpiderLoop(t1, client_ok)
  ELSE IF fetch_result.raw_response_text <= 0
  THEN SpiderLoop([t EXCEPT !.site_errors = Append(@, Err("no_html", t.current_url, 0, NoMsg))],
                  client_ok)
  ELSE LET t1 == [t EXCEPT !.site_content_parts =
                     Append(@, IF IsSubstantial(ext) THEN SpiderContentBlock(t.current_url, ext)
                               ELSE SpiderLowBlock(t.current_url, ext))]
       IN IF t.current_d < t.max_depth
          THEN IF "DEFAULT_MAX_LINKS_PER_PAGE_SPIDER" \notin ImportedNames
               THEN [t1 EXCEPT !.pc = "raised", !.exc = "NameError"]
               ELSE SpiderAfterLinks(t1, links, client_ok)
          ELSE SpiderLoop(t1, client_ok)

\* lines 180-183 and back to the loop head: internal_links is what the call
\* of line 179 gave
SpiderAfterLinks(t, links, client_ok) ==
  LET after == EnqueueLinks(t.queue, t.visited, links, t.current_d, t.max_links)
  IN SpiderLoop([t EXCEPT !.internal_links = links,
                          !.queue = after,
                          !.enqueued = @ \o [j \in 1..Len(NewEntries(t.queue, after, links)) |->
                                                <<NewEntries(t.queue, after, links)[j],
                                                  t.current_d + 1>>]],
                client_ok)

\* lines 185-191: the dictionary the spider returns
SiteResult(t) ==
  [source_base_url |-> t.url,
   aggregated_content |-> IF t.site_content_parts # <<>>
                          THEN Join(t.site_content_parts, SiteSeparator)
                          ELSE NoContentSentinel(t.url),
   errors |-> t.site_errors,
   key_used_for_base |-> t.key]

\* ------------------------------------------------------- coroutine steps
\* a task is started by the event loop: it runs to its first suspension
TaskStartStep(t, client_ok) ==
  IF t.kind = "spider" THEN SpiderLoop(t, client_ok)
  ELSE LET enter == FetchEnter(t.url, t.key, client_ok)
       IN IF enter.act = "get" THEN IssueGet(t)
          ELSE IF enter.act = "raise" THEN [EndFetch(t) EXCEPT !.pc = "raised", !.exc = enter.x]
          ELSE [EndFetch(t) EXCEPT !.pc = "done", !.fetch_result = enter.result]

\* the running fetch frame has made a step that ended with out
TaskOnFetchStep(t, out, ext, links, client_ok) ==
  IF out.act = "sleep" THEN [t EXCEPT !.pc = "sleep", !.delay = out.delay]
  ELSE IF out.act = "get" THEN IssueGet(t)
  ELSE IF out.act = "raise" THEN [EndFetch(t) EXCEPT !.pc = "raised", !.exc = out.x]
  ELSE IF t.kind = "spider"
  THEN SpiderOnResult(EndFetch(t), out.result, ext, links, client_ok)
  ELSE [EndFetch(t) EXCEPT !.pc = "done", !.fetch_result = out.result]

Resolved(t) == t.pc \in {"done", "raised"}

\* ------------------------------------------------- post-merge filtering
\* the five filter_patterns (lines 243-249; line 333 refers to them)
FilterPatterns == <<1, 2, 3, 4, 5>>

\* the pieces a pattern matches from their first to their last character:
\* pattern 1 wants "### " before one of its phrases, the others match none of
\* the texts the orchestrators put into content
PieceMatches(p, k) == p = 1 /\ k \in {"low", "major"}

\* re.sub(pattern, "", s): a matched line goes, with the newline after it
RECURSIVE ReSub(_, _)
ReSub(p, s) ==
  IF s = <<>> THEN <<>>
  ELSE IF PieceMatches(p, Head(s).k)
  THEN LET rest == Tail(s)
       IN IF rest # <<>> /\ Head(rest).k = "nl"
          THEN (IF Head(rest).n > 1 THEN <<Nl(Head(rest).n - 1)>> ELSE <<>>)
               \o ReSub(p, Tail(rest))
          ELSE ReSub(p, rest)
  ELSE <<Head(s)>> \o ReSub(p, Tail(s))

\* lines 251-253: re.sub(...).strip() for each pattern in turn
RECURSIVE CrawlFilter(_, _)
CrawlFilter(patterns, s) ==
  IF patterns = <<>> THEN s
  ELSE CrawlFilter(Tail(patterns), Strip(ReSub(Head(patterns), s)))

\* lines 334-336: re.sub for each pattern in turn, then one strip()
RECURSIVE SearchSubAll(_, _)
SearchSubAll(patterns, s) ==
  IF patterns = <<>> THEN s
  ELSE SearchSubAll(Tail(patterns), ReSub(Head(patterns), s))

SearchFilter(patterns, s) == Strip(SearchSubAll(patterns, s))

NoSubstantialCrawl == Piece("no_substantial", NoUrl, 74, 0)

NoSubstantialSearch == Piece("no_substantial", NoUrl, 104, 0)

IssuesHint == Piece("issues_hint", NoUrl, 128, 0)

NoResultsMessage == Piece("no_results", NoUrl, 46, 0)

TooShortOnlyIfEmpty(meaningful) == meaningful = <<>>

\* lines 257 and 340
TooShort(meaningful) ==
  meaningful = <<>> \/ StrLen(meaningful) < MIN_CONTENT_LENGTH_FOR_SUMMARY

\* lines 258-260 and 341-343
FinalReport(fixed, all_errors) ==
  IF all_errors # <<>> THEN <<fixed, IssuesHint>> ELSE <<fixed>>

\* ------------------------------------------------------ batch orchestrator
\* what an orchestrator returns: the "error" key ("none": absent), the
\* content string, the sources and the error list
Ret(error, content, sources, all_errors) ==
  [error |-> error, content |-> content, sources |-> sources, all_errors |-> all_errors]

NoRet == Ret("none", <<>>, <<>>, <<>>)

UrlsToProcessCountNoPool(n_urls, num_valid_keys) == Min(n_urls, MAX_CONCURRENT_SCRAPES)

\* lines 201 and 298
UrlsToProcessCount(n_urls, num_valid_keys) ==
  MinOf3(n_urls, num_valid_keys, MAX_CONCURRENT_SCRAPES)

\* lines 206 and 302
KeyForIndex(pool, index) == pool[(index % Len(pool)) + 1]

ResetKeyIndexCarried(left_over) == left_over

\* line 295: the module-level counter is set again for each batch
ResetKeyIndex(left_over) == 0

ReturnExceptionsOff == FALSE

\* asyncio.gather(*tasks, return_exceptions=True)
ReturnExceptions == TRUE

GatherOrderAsCompleted(ts, swapped) ==
  [i \in 1..Len(ts) |-> IF swapped THEN Len(ts) + 1 - i ELSE i]

\* the order in which gather lists the results: that of its arguments
GatherOrder(ts, swapped) == [i \in 1..Len(ts) |-> i]

GatherResults(ts, swapped) ==
  [i \in 1..Len(ts) |-> ts[GatherOrder(ts, swapped)[i]]]

\* lines 225-236
RECURSIVE CrawlMerge(_, _, _, _, _)
CrawlMerge(results, base_urls, i, parts, errors) ==
  IF i > Len(results) THEN [parts |-> parts, errors |-> errors]
  ELSE LET res == results[i]
           processed_url == base_urls[i]
       IN IF res.pc = "raised"
          THEN CrawlMerge(results, base_urls, i + 1,
                          Append(parts, MajorErrorBlock(processed_url, res.exc)),
                          Append(errors, Err("task_unhandled", processed_url, 0,
                                             Msg("exception", 0, res.exc))))
          ELSE CrawlMerge(results, base_urls, i + 1,
                          Append(parts, SiteResult(res).aggregated_content),
                          errors \o SiteResult(res).errors)

\* lines 221-271
CrawlReturn(results, base_urls) ==
  LET merged == CrawlMerge(results, base_urls, 1, <<>>, <<>>)
      content_str == Join(merged.parts, BatchSeparator)
      meaningful == CrawlFilter(FilterPatterns, content_str)
  IN IF TooShort(meaningful)
     THEN Ret("none", FinalReport(NoSubstantialCrawl, merged.errors), <<>>, merged.errors)
     ELSE Ret("none", meaningful, <<>>, merged.errors)

SourceEntryFirst(found, i) == found[1]

\* line 314: source_info = ddg_search_results[i]
SourceEntry(found, i) == found[i]

\* lines 313-329
RECURSIVE SearchMerge(_, _, _, _, _, _)
SearchMerge(results, found, i, parts, errors, sources) ==
  IF i > Len(results) THEN [parts |-> parts, errors |-> errors, sources |-> sources]
  ELSE LET res == results[i]
           url == SourceEntry(found, i)
           fr == res.fetch_result
       IN IF res.pc = "raised"
          THEN SearchMerge(results, found, i + 1, parts,
                           Append(errors, Err("task_failed", url, 0, Msg("exception", 0, res.exc))),
                           sources)
          ELSE IF FetchFailed(fr)
          THEN SearchMerge(results, found, i + 1, parts,
                           Append(errors, Err("error_fetching", url, fr.status_code,
                                              fr.error_message)),
                           sources)
          ELSE IF IsSubstantial(fr.raw_response_text)
          THEN SearchMerge(results, found, i + 1,
                           Append(parts, SearchContentBlock(url, fr.raw_response_text)),
                           errors, Append(sources, url))
          ELSE SearchMerge(results, found, i + 1, parts,
                           Append(errors, Err("low_content", url, fr.status_code, NoMsg)),
                           sources)

\* lines 309-354
SearchReturn(results, found) ==
  LET merged == SearchMerge(results, found, 1, <<>>, <<>>, <<>>)
      content_str == Join(merged.parts, SiteSeparator)
      meaningful == SearchFilter(FilterPatterns, content_str)
  IN IF TooShort(meaningful)
     THEN Ret("none", FinalReport(NoSubstantialSearch, merged.errors),
              merged.sources, merged.errors)
     ELSE Ret("none", meaningful, merged.sources, merged.errors)

\* lines 195 and 275
ConfigErrorReturn == Ret("config", <<>>, <<>>, <<Err("config", NoUrl, 0, NoMsg)>>)

\* line 287
SearchFailedReturn == Ret("ddg_failed", <<>>, <<>>, <<Err("ddg_failed", NoUrl, 0, NoMsg)>>)

NoSearchResultsNever(found) == FALSE

\* line 289: if not ddg_search_results
NoSearchResults(found) == found = <<>>

\* line 290
NoResultsReturn == Ret("none", <<NoResultsMessage>>, <<>>, <<>>)

\* main.py lines 86-93 and 106-113: the handler's answer to what the
\* orchestrator returned; an HTTPException raised inside the try block is
\* caught by its except clause and raised again with status 500
ApiStatus(r) == IF r.error # "none" THEN 500 ELSE 200

\* -------------------------------------------------------------- environment
\* lengths of the texts a page yields: nothing, at the substance threshold,
\* just above it, and above the minimum summary length
BodyLens ==
  {0, MIN_CONTENT_LENGTH_FOR_SUMMARY \div 2, MIN_CONTENT_LENGTH_FOR_SUMMARY \div 2 + 1,
   MIN_CONTENT_LENGTH_FOR_SUMMARY + 50}

\* raw HTML: empty or not
HtmlLens == {0, MIN_CONTENT_LENGTH_FOR_SUMMARY + 50}

\* the statuses the proxy answers with besides 200
ErrorStatuses == {401, 403, 404, 429, 503}

Reply(t, status, body) == [t |-> t, status |-> status, body |-> body]

\* what client.get ends with (line 66)
Replies(kind) ==
  {Reply("response", 200, b) : b \in IF kind = "spider" THEN HtmlLens ELSE BodyLens}
  \cup {Reply("response", st, 0) : st \in ErrorStatuses}
  \cup {Reply("timeout", 0, 0), Reply("request_error", 0, 0)}

\* what get_main_content_from_html may return for the body of a reply
ExtractLens(t, reply) ==
  IF t.kind = "spider" /\ reply.t = "response" /\ reply.status = 200 /\ reply.body > 0
  THEN {n \in BodyLens : n <= reply.body}
  ELSE {0}

\* what extract_relevant_internal_links may return, where line 179 is reached
LinkChoices(t, reply) ==
  IF t.kind = "spider" /\ reply.t = "response" /\ reply.status = 200 /\ reply.body > 0
     /\ t.current_d < t.max_depth /\ "DEFAULT_MAX_LINKS_PER_PAGE_SPIDER" \in ImportedNames
  THEN LinkLists(t.url[1], DEFAULT_MAX_LINKS_PER_PAGE_SPIDER)
  ELSE {<<>>}

\* ---------------------------------------------------------------- requests
Request(mode, via, K, n_urls, max_depth, max_links, search_ok, found, key, retry_count, max_retries) ==
  [mode |-> mode, via |-> via, K |-> K, search_ok |-> search_ok,
   base_urls |-> [i \in 1..n_urls |-> BaseUrl(i)],
   max_depth_internal |-> max_depth, max_links_per_url |-> max_links,
   ddg_search_results |-> found, key |-> key,
   retry_count |-> retry_count, max_retries |-> max_retries]

\* SpiderCrawlRequest; with an empty pool the orchestrator is also called
\* without the HTTP handler in front of it
CrawlRequests ==
  {Request("crawl", via, K, m, d, l, TRUE, <<>>, 0, 0, 0) :
     via \in {"api"}, K \in 1..MaxKeys, m \in 1..MaxUrls, d \in 0..MaxDepth, l \in 0..MaxPages}
  \cup {Request("crawl", via, 0, 1, 0, 1, TRUE, <<>>, 0, 0, 0) : via \in {"api", "direct"}}
  \cup {Request("crawl", "api", WideKeys, WideUrls, 0, 0, TRUE, <<>>, 0, 0, 0)}

\* DuckDuckGoScrapeRequest and what the search does: it raises, or it yields
\* the results that carry an href
SearchRequests ==
  {Request("search", "api", K, 0, 0, 0, TRUE, [i \in 1..r |-> BaseUrl(i)], 0, 0, 0) :
     K \in 1..MaxKeys, r \in 0..MaxResults}
  \cup {Request("search", "api", K, 0, 0, 0, FALSE, <<>>, 0, 0, 0) : K \in 1..MaxKeys}
  \cup {Request("search", via, 0, 0, 0, 0, TRUE, <<>>, 0, 0, 0) : via \in {"api", "direct"}}

\* a call of fetch_url_with_scraperapi by itself
FetchRequests ==
  {Request("fetch", "direct", 1, 1, 0, 0, TRUE, <<>>, key, r, m) :
     key \in {0, 1}, r \in 0..MaxRetries, m \in 0..MaxRetries}

Requests == CrawlRequests \cup SearchRequests \cup FetchRequests

\* ------------------------------------------------------------------- state
VARIABLES
  req,                              \* the request being served
  pc,                               \* "request", "gather", "done"
  tasks,                            \* the coroutines of the batch
  out_of_order,                     \* history: a task resolved before one listed earlier
  searched,                         \* history: the web search was called (line 281)
  current_key_index_for_parallel,   \* the module-level counter (line 294)
  ret,                              \* what the orchestrator returned
  response                          \* HTTP status of the handler, 0: none

vars == <<req, pc, tasks, out_of_order, searched, current_key_index_for_parallel, ret, response>>

Init ==
  /\ req \in Requests
  /\ pc = "request"
  /\ tasks = <<>>
  /\ out_of_order = FALSE
  /\ searched = FALSE
  /\ current_key_index_for_parallel = 0
  /\ ret = NoRet
  /\ response = 0

NoKeysIgnored == FALSE

\* if not VALID_SCRAPER_API_KEYS (main.py lines 74 and 100, scraper_service.py
\* lines 194 and 274)
NoKeys == req.K = 0

Finish(r) ==
  /\ pc' = "done"
  /\ ret' = r
  /\ response' = IF req.via = "api" THEN ApiStatus(r) ELSE 0

\* main.py lines 69-85 and scraper_service.py lines 193-219: from the arrival
\* of the request to the suspension on gather
SpiderCrawlBatchStart ==
  /\ pc = "request" /\ req.mode = "crawl"
  /\ UNCHANGED <<req, out_of_order, searched, current_key_index_for_parallel>>
  /\ IF NoKeys /\ req.via = "api"
     THEN pc' = "done" /\ response' = 503 /\ UNCHANGED <<ret, tasks>>
     ELSE IF NoKeys
     THEN Finish(ConfigErrorReturn) /\ UNCHANGED tasks
     ELSE LET pool == VALID_SCRAPER_API_KEYS(req.K)
              n == UrlsToProcessCount(Len(req.base_urls), Len(pool))
          IN /\ tasks' = [i \in 1..n |->
                            NewTask("spider", req.base_urls[i], KeyForIndex(pool, i - 1),
                                    req.max_depth_internal, req.max_links_per_url, 0, 0)]
             /\ pc' = "gather"
             /\ UNCHANGED <<ret, response>>

\* main.py lines 99-105 and scraper_service.py lines 273-307
DuckduckgoScrapeStart ==
  /\ pc = "request" /\ req.mode = "search"
  /\ UNCHANGED <<req, out_of_order>>
  /\ searched' = ~NoKeys
  /\ IF NoKeys /\ req.via = "api"
     THEN /\ pc' = "done" /\ response' = 503
          /\ UNCHANGED <<ret, tasks, current_key_index_for_parallel>>
     ELSE IF NoKeys
     THEN Finish(ConfigErrorReturn) /\ UNCHANGED <<tasks, current_key_index_for_parallel>>
     ELSE IF ~req.search_ok
     THEN Finish(SearchFailedReturn) /\ UNCHANGED <<tasks, current_key_index_for_parallel>>
     ELSE IF NoSearchResults(req.ddg_search_results)
     THEN Finish(NoResultsReturn) /\ UNCHANGED <<tasks, current_key_index_for_parallel>>
     ELSE LET pool == VALID_SCRAPER_API_KEYS(req.K)
              n == UrlsToProcessCount(Len(req.ddg_search_results), Len(pool))
              first == ResetKeyIndex(current_key_index_for_parallel)
          IN /\ tasks' = [i \in 1..n |->
                            NewTask("fetch", req.ddg_search_results[i],
                                    KeyForIndex(pool, first + i - 1), 0, 0, 0, 1)]
             /\ current_key_index_for_parallel' = first + n
             /\ pc' = "gather"
             /\ UNCHANGED <<ret, response>>

\* fetch_url_with_scraperapi called by itself with its own attempt budget
DirectFetchCall ==
  /\ pc = "request" /\ req.mode = "fetch"
  /\ tasks' = <<NewTask("fetch", req.base_urls[1], req.key, 0, 0,
                        req.retry_count, req.max_retries)>>
  /\ pc' = "gather"
  /\ UNCHANGED <<req, out_of_order, searched, current_key_index_for_parallel, ret, response>>

Step(i, t) ==
  /\ tasks' = [tasks EXCEPT ![i] = t]
  /\ out_of_order' = (out_of_order
                       \/ (Resolved(t) /\ \E j \in 1..(i - 1) : ~Resolved(tasks[j])))
  /\ UNCHANGED <<req, pc, searched, current_key_index_for_parallel, ret, response>>

\* the event loop starts task i
TaskStart(i) ==
  /\ pc = "gather" /\ tasks[i].pc = "ready"
  /\ \E client_ok \in BOOLEAN : Step(i, TaskStartStep(tasks[i], client_ok))

\* client.get of task i ends with one of replies, and the text extracted
\* from a page has one of the lengths extracts
HttpReplyFrom(i, replies, extracts) ==
  /\ pc = "gather" /\ tasks[i].pc = "http"
  /\ LET t == tasks[i]
     IN \E reply \in replies :
          \E ext \in ExtractLens(t, reply) \cap extracts, links \in LinkChoices(t, reply), client_ok \in BOOLEAN :
            Step(i, TaskOnFetchStep([t EXCEPT !.last_status = reply.status],
                                    FetchOnReply(t.current_url, t.key, t.retry_count,
                                                 t.max_retries, reply),
                                    ext, links, client_ok))

\* client.get of task i ends
HttpReply(i) == HttpReplyFrom(i, Replies(tasks[i].kind), BodyLens)

\* asyncio.sleep of task i ends: the fetch calls itself with retry_count + 1
WakeUp(i) ==
  /\ pc = "gather" /\ tasks[i].pc = "sleep"
  /\ LET t == tasks[i]
     IN \E client_ok \in BOOLEAN :
          Step(i, TaskOnFetchStep([t EXCEPT !.retry_count = @ + 1, !.delay = 0],
                                  FetchRetry(t.current_url, t.key, client_ok),
                                  0, <<>>, TRUE))

FirstResolved == tasks = <<>> \/ Resolved(tasks[1])

\* line 219: gather completes when each of its awaitables has
AllResolved == \A i \in 1..Len(tasks) : Resolved(tasks[i])

\* without return_exceptions the first exception leaves gather at once
GatherRaises == ~ReturnExceptions /\ \E i \in 1..Len(tasks) : tasks[i].pc = "raised"

GatherReturn(r) ==
  /\ pc = "gather"
  /\ IF GatherRaises
     THEN pc' = "done" /\ response' = 500 /\ UNCHANGED ret
     ELSE AllResolved /\ Finish(r)
  /\ UNCHANGED <<req, tasks, out_of_order, searched, current_key_index_for_parallel>>

\* scraper_service.py lines 219-271 and main.py lines 86-93
SpiderCrawlBatchReturn ==
  /\ req.mode = "crawl"
  /\ GatherReturn(CrawlReturn(GatherResults(tasks, out_of_order), req.base_urls))

\* scraper_service.py lines 307-354 and main.py lines 106-113
DuckduckgoScrapeReturn ==
  /\ req.mode = "search"
  /\ GatherReturn(SearchReturn(GatherResults(tasks, out_of_order), req.ddg_search_results))

\* the direct call returns its fetch result
DirectFetchReturn ==
  /\ req.mode = "fetch" /\ pc = "gather" /\ AllResolved
  /\ pc' = "done"
  /\ UNCHANGED <<req, tasks, out_of_order, searched, current_key_index_for_parallel, ret, response>>

\* the server takes the next search request; the module-level counter keeps
\* the value the batch before left in it
NextSearchRequest ==
  /\ pc = "done" /\ req.mode = "search"
  /\ req' \in SearchRequests
  /\ pc' = "request"
  /\ tasks' = <<>>
  /\ out_of_order' = FALSE
  /\ searched' = FALSE
  /\ ret' = NoRet
  /\ response' = 0
  /\ UNCHANGED current_key_index_for_parallel

Next ==
  \/ SpiderCrawlBatchStart
  \/ DuckduckgoScrapeStart
  \/ DirectFetchCall
  \/ \E i \in 1..Len(tasks) : TaskStart(i)
  \/ \E i \in 1..Len(tasks) : HttpReply(i)
  \/ \E i \in 1..Len(tasks) : WakeUp(i)
  \/ SpiderCrawlBatchReturn
  \/ DuckduckgoScrapeReturn
  \/ DirectFetchReturn
  \/ NextSearchRequest

Spec == Init /\ [][Next]_vars

\* gather has completed and the orchestrator awaiting it can go on: the
\* condition under which SpiderCrawlBatchReturn or DuckduckgoScrapeReturn is
\* enabled
GatherDone == pc = "gather" /\ req.mode # "fetch" /\ AllResolved

\* weak fairness of the two return actions, with their enabling condition
\* written out: the orchestrator is resumed once gather has completed
ReturnFairness ==
  \/ []<>(~GatherDone)
  \/ []<><<pc = "gather" /\ req.mode # "fetch" /\ pc' = "done">>_vars

\* the event loop runs every coroutine that is ready, every HTTP call gets
\* its answer (a response, a timeout or a connection error), every sleep ends
LiveSpec ==
  /\ Spec
  /\ WF_vars(\E i \in 1..Len(tasks) : TaskStart(i))
  /\ WF_vars(\E i \in 1..Len(tasks) : HttpReply(i))
  /\ WF_vars(\E i \in 1..Len(tasks) : WakeUp(i))
  /\ ReturnFairness

\* ------------------------------------------- the frontier of one spider
\* Line 179 names DEFAULT_MAX_LINKS_PER_PAGE_SPIDER, which the module does not
\* import, so under Spec lines 180-183 are never reached.  FrontierSpec is the
\* loop of lines 140-183 with that name bound: where the call of line 179
\* raises NameError under Spec, it returns a list of links here.

FrontierRequests ==
  {Request("crawl", "direct", 1, 1, d, l, TRUE, <<>>, 0, 0, 0) :
     d \in 0..FrontierDepth, l \in 0..FrontierPages}

\* lines 129-138: the locals of one spider before its loop
FrontierInit ==
  /\ req \in FrontierRequests
  /\ pc = "gather"
  /\ tasks = <<NewTask("spider", req.base_urls[1], 1, req.max_depth_internal,
                       req.max_links_per_url, 0, 0)>>
  /\ out_of_order = FALSE
  /\ searched = FALSE
  /\ current_key_index_for_parallel = 0
  /\ ret = NoRet
  /\ response = 0

\* the replies of one spider's fetches: a page, a failure that lets the loop
\* go on (line 100) and one that ends it (line 96)
FrontierReplies ==
  {Reply("response", 200, MIN_CONTENT_LENGTH_FOR_SUMMARY + 50),
   Reply("timeout", 0, 0), Reply("response", 404, 0)}

\* the text of a page is below the threshold of line 171 or above it
FrontierExtracts == {0, MIN_CONTENT_LENGTH_FOR_SUMMARY + 50}

\* lines 179-183: extract_relevant_internal_links returns internal_links, the
\* links are enqueued and the loop goes on to its next suspension
LinksReturned(i) ==
  /\ pc = "gather" /\ tasks[i].kind = "spider"
  /\ tasks[i].pc = "raised" /\ tasks[i].exc = "NameError"
  /\ \E links \in LinkLists(tasks[i].url[1], DEFAULT_MAX_LINKS_PER_PAGE_SPIDER), client_ok \in BOOLEAN :
       Step(i, SpiderAfterLinks([tasks[i] EXCEPT !.exc = "none"], links, client_ok))

FrontierNext ==
  \/ \E i \in 1..Len(tasks) : TaskStart(i)
  \/ \E i \in 1..Len(tasks) : HttpReplyFrom(i, FrontierReplies, FrontierExtracts)
  \/ \E i \in 1..Len(tasks) : LinksReturned(i)

FrontierSpec == FrontierInit /\ [][FrontierNext]_vars

\* --------------------------------------------- two batches at the same time
\* OverlapSpec: two orchestrator invocations served by the one event loop.
\* Here req, pc and tasks are pairs, one component for each invocation;
\* current_key_index_for_parallel is the one module-level counter.

Batches == {1, 2}

\* both invocations read the same pool; each asks for more targets than the
\* pool has keys or for as many as MaxResults
OverlapRequests(K) ==
  {Request("crawl", "direct", K, MaxUrls, 0, 1, TRUE, <<>>, 0, 0, 0),
   Request("search", "direct", K, 0, 0, 0, TRUE, [i \in 1..MaxResults |-> BaseUrl(i)], 0, 0, 0)}

OverlapInit ==
  /\ \E K \in 1..MaxKeys : req \in {<<r1, r2>> : r1 \in OverlapRequests(K), r2 \in OverlapRequests(K)}
  /\ pc = <<"request", "request">>
  /\ tasks = <<<<>>, <<>>>>
  /\ out_of_order = FALSE
  /\ searched = FALSE
  /\ current_key_index_for_parallel = 0
  /\ ret = NoRet
  /\ response = 0

Targets(r) == IF r.mode = "crawl" THEN r.base_urls ELSE r.ddg_search_results

LaunchCount(r) == UrlsToProcessCount(Len(Targets(r)), r.K)

\* lines 204-216 and lines 300-305: one iteration of the loop that builds the
\* tasks; the crawl counts in its local key_assignment_index, which is the
\* number of iterations made, the search in the module-level counter
LaunchOne(r, ts, counter) ==
  LET pool == VALID_SCRAPER_API_KEYS(r.K)
      target == Targets(r)[Len(ts) + 1]
  IN IF r.mode = "crawl"
     THEN [ts |-> Append(ts, NewTask("spider", target, KeyForIndex(pool, Len(ts)),
                                     r.max_depth_internal, r.max_links_per_url, 0, 0)),
           counter |-> counter]
     ELSE [ts |-> Append(ts, NewTask("fetch", target, KeyForIndex(pool, counter), 0, 0, 0, 1)),
           counter |-> counter + 1]

RECURSIVE LaunchLoop(_, _, _, _)
LaunchLoop(r, ts, counter, iterations) ==
  IF iterations = 0 \/ Len(ts) >= LaunchCount(r) THEN [ts |-> ts, counter |-> counter]
  ELSE LET one == LaunchOne(r, ts, counter)
       IN LaunchLoop(r, one.ts, one.counter, iterations - 1)

IterationsPerStepOne(n) == 1

\* lines 204-216 and 300-305 hold no await: the n iterations of the loop are
\* made without the event loop running anything else
IterationsPerStep(n) == n

\* scraper_service.py lines 193-219 and 273-307 for invocation b: from the
\* call to the suspension on gather
OverlapStart(b) ==
  /\ pc[b] \in {"request", "launch"}
  /\ LET r == req[b]
         counter == IF r.mode = "search" /\ pc[b] = "request"
                    THEN ResetKeyIndex(current_key_index_for_parallel)
                    ELSE current_key_index_for_parallel
         loop == LaunchLoop(r, tasks[b], counter, IterationsPerStep(LaunchCount(r)))
     IN /\ tasks' = [tasks EXCEPT ![b] = loop.ts]
        /\ current_key_index_for_parallel' = loop.counter
        /\ pc' = [pc EXCEPT ![b] = IF Len(loop.ts) >= LaunchCount(r) THEN "gather" ELSE "launch"]
  /\ UNCHANGED <<req, out_of_order, searched, ret, response>>

OverlapStep(b, i, t) ==
  /\ tasks' = [tasks EXCEPT ![b][i] = t]
  /\ UNCHANGED <<req, pc, out_of_order, searched, current_key_index_for_parallel, ret, response>>

\* the event loop starts task i of invocation b
OverlapTaskStart(b, i) ==
  /\ pc[b] = "gather" /\ tasks[b][i].pc = "ready"
  /\ OverlapStep(b, i, TaskStartStep(tasks[b][i], TRUE))

\* client.get of task i of invocation b ends with a page
OverlapHttpReply(b, i) ==
  /\ pc[b] = "gather" /\ tasks[b][i].pc = "http"
  /\ LET t == tasks[b][i]
         reply == Reply("response", 200, MIN_CONTENT_LENGTH_FOR_SUMMARY + 50)
     IN OverlapStep(b, i, TaskOnFetchStep([t EXCEPT !.last_status = reply.status],
                                          FetchOnReply(t.current_url, t.key, t.retry_count,
                                                       t.max_retries, reply),
                                          reply.body, <<>>, TRUE))

\* lines 219 and 307: gather of invocation b returns
OverlapReturn(b) ==
  /\ pc[b] = "gather"
  /\ \A i \in 1..Len(tasks[b]) : Resolved(tasks[b][i])
  /\ pc' = [pc EXCEPT ![b] = "done"]
  /\ UNCHANGED <<req, tasks, out_of_order, searched, current_key_index_for_parallel, ret, response>>

OverlapNext ==
  \/ \E b \in Batches : OverlapStart(b)
  \/ \E b \in Batches : \E i \in 1..Len(tasks[b]) : OverlapTaskStart(b, i)
  \/ \E b \in Batches : \E i \in 1..Len(tasks[b]) : OverlapHttpReply(b, i)
  \/ \E b \in Batches : OverlapReturn(b)

OverlapSpec == OverlapInit /\ [][OverlapNext]_vars

\* ------------------------------------------------------ the link filter
\* LinkSpec: extract_relevant_internal_links (content_utils.py lines 26-79)
\* called by itself.  Here req holds the arguments and tasks the one frame of
\* the call: the set links, the anchors of the page still to be looked at, and
\* whether the function has returned.

Url(scheme, netloc, path) == [scheme |-> scheme, netloc |-> netloc, path |-> path]

Schemes == {"http", "https", "ftp"}

Netlocs == {"site", "elsewhere"}

\* an <a href> of the page: what its href is, the URL written in it, and what
\* lines 54-70 find in its text and path
ATag(href, url, term, news, file) == [href |-> href, url |-> url, term |-> term, news |-> news, file |-> file]

ATags ==
  {ATag(h, Url("none", "none", 0), FALSE, FALSE, FALSE) :
     h \in {"empty", "fragment", "javascript", "mailto", "invalid"}}
  \cup {ATag("relative", Url("none", "none", p), term, news, file) :
          p \in 1..LinkPaths, term \in BOOLEAN, news \in BOOLEAN, file \in BOOLEAN}
  \cup {ATag("absolute", Url(s, n, p), term, news, file) :
          s \in Schemes, n \in Netlocs, p \in 1..LinkPaths,
          term \in BOOLEAN, news \in BOOLEAN, file \in BOOLEAN}

\* line 47: urljoin(base_url_str, href)
UrlJoin(base_url, a_tag) ==
  IF a_tag.href = "relative" THEN Url(base_url.scheme, base_url.netloc, a_tag.url.path)
  ELSE a_tag.url

\* line 43
SkippedHref(a_tag) == a_tag.href \in {"empty", "fragment", "javascript", "mailto"}

\* line 50: the test that lets a link through to the relevance check
InternalLink(parsed_absolute_url, base_url_obj) ==
  /\ parsed_absolute_url.scheme \in {"http", "https"}
  /\ parsed_absolute_url.netloc = base_url_obj.netloc

\* lines 53-67
IsRelevant(a_tag, query_terms) ==
  IF query_terms THEN a_tag.term \/ a_tag.news ELSE TRUE

\* lines 42-74: one a_tag of the loop
LinksAfter(links, a_tag, base_url, query_terms) ==
  IF SkippedHref(a_tag) \/ a_tag.href = "invalid" THEN links
  ELSE LET absolute_url == UrlJoin(base_url, a_tag)
       IN IF ~InternalLink(absolute_url, base_url) THEN links
          ELSE IF IsRelevant(a_tag, query_terms) /\ ~a_tag.file
          THEN links \cup {absolute_url}
          ELSE links

LinkRequests ==
  {[mode |-> "links", base_url |-> Url(s, "site", 0), query_terms |-> q,
    max_links_to_return |-> m, a_tags |-> n] :
     s \in {"http", "https"}, q \in BOOLEAN, m \in 0..MaxReturn, n \in 0..MaxATags}

LinkInit ==
  /\ req \in LinkRequests
  /\ pc = "links"
  /\ tasks = <<[links |-> {}, a_tags |-> req.a_tags, pc |-> "loop"]>>
  /\ out_of_order = FALSE
  /\ searched = FALSE
  /\ current_key_index_for_parallel = 0
  /\ ret = NoRet
  /\ response = 0

\* line 38: the loop goes on while a_tags are left and line 39 does not break
LoopGoesOn(frame) ==
  /\ frame.pc = "loop"
  /\ frame.a_tags > 0
  /\ Cardinality(frame.links) < req.max_links_to_return

\* lines 38-74: the loop takes the next a_tag of the page
LinkFilterATag ==
  /\ pc = "links" /\ LoopGoesOn(tasks[1])
  /\ \E a_tag \in ATags :
       tasks' = <<[tasks[1] EXCEPT !.links = LinksAfter(@, a_tag, req.base_url, req.query_terms),
                                   !.a_tags = @ - 1]>>
  /\ UNCHANGED <<req, pc, out_of_order, searched, current_key_index_for_parallel, ret, response>>

\* lines 31-32 and 76: return list(links)
LinkFilterReturn ==
  /\ pc = "links" /\ tasks[1].pc = "loop" /\ ~LoopGoesOn(tasks[1])
  /\ tasks' = <<[tasks[1] EXCEPT !.pc = "returned"]>>
  /\ pc' = "done"
  /\ UNCHANGED <<req, out_of_order, searched, current_key_index_for_parallel, ret, response>>

LinkNext == LinkFilterATag \/ LinkFilterReturn

LinkSpec == LinkInit /\ [][LinkNext]_vars

\* ================================================================== claims
SiteOf(u) == u[1]

NonDecreasing(q) == \A a, b \in 1..Len(q) : a < b => q[a] <= q[b]

RECURSIVE SitesOfPieces(_)
SitesOfPieces(c) ==
  IF c = <<>> THEN <<>>
  ELSE IF Head(c).u = NoUrl THEN SitesOfPieces(Tail(c))
  ELSE <<SiteOf(Head(c).u)>> \o SitesOfPieces(Tail(c))

SitesOfErrors(errors) == [j \in 1..Len(errors) |-> SiteOf(errors[j].u)]

Batch == req.mode \in {"crawl", "search"} /\ tasks # <<>>

Returned == Batch /\ pc = "done"

\* C1: in a multi-site crawl with a pool of K >= 1 keys, M base URLs and cap
\* C, the spiders launched are exactly one for each of the first min(M, K, C)
\* URLs, in input order, and every page fetched belongs to one of those sites.
C1_Launch ==
  (req.mode = "crawl" /\ req.K >= 1 /\ pc # "request") =>
    LET M == Len(req.base_urls)
        n == IF M <= req.K /\ M <= MAX_CONCURRENT_SCRAPES THEN M
             ELSE IF req.K <= MAX_CONCURRENT_SCRAPES THEN req.K
             ELSE MAX_CONCURRENT_SCRAPES
    IN /\ Len(tasks) = n
       /\ \A i \in 1..Len(tasks) :
            /\ tasks[i].kind = "spider"
            /\ i <= M /\ tasks[i].url = req.base_urls[i]
            /\ \A j \in 1..Len(tasks[i].fetched) :
                 /\ SiteOf(tasks[i].fetched[j][1]) = SiteOf(req.base_urls[i])
                 /\ \A k \in (n + 1)..M : tasks[i].fetched[j][1] # req.base_urls[k]

\* two keys, three base URLs: both spiders have fetched their page and the
\* batch has returned
C1_Witness ==
  /\ req.mode = "crawl" /\ req.K = 2 /\ Len(req.base_urls) = 3 /\ pc = "done"
  /\ Len(tasks) = 2
  /\ \A i \in 1..Len(tasks) : Len(tasks[i].fetched) = 1

\* C2: a site spider with max_depth >= 0 never fetches a page whose depth is
\* above max_depth, and never fetches more than max_links_to_crawl_per_site
\* pages.
C2_DepthAndBudget ==
  \A i \in 1..Len(tasks) :
    tasks[i].kind = "spider" =>
      /\ Len(tasks[i].fetched) <= tasks[i].max_links
      /\ \A j \in 1..Len(tasks[i].fetched) : tasks[i].fetched[j][2] <= tasks[i].max_depth

\* a spider has used its whole page budget and stopped
C2_Witness ==
  \E i \in 1..Len(tasks) :
    /\ tasks[i].kind = "spider" /\ tasks[i].pc = "done"
    /\ tasks[i].max_links = 1 /\ Len(tasks[i].fetched) = 1
    /\ tasks[i].site_content_parts # <<>>

\* C3: in both entry points the i-th launched task (from 0) holds pool[i mod K].
C3_RoundRobin ==
  Batch =>
    \A i \in 1..Len(tasks) :
      tasks[i].key = VALID_SCRAPER_API_KEYS(req.K)[((i - 1) % req.K) + 1]

\* a search batch has launched two fetches, one on each key of the pool
C3_Witness ==
  /\ req.mode = "search" /\ pc = "gather" /\ Len(tasks) = 2
  /\ tasks[1].key = 1 /\ tasks[2].key = 2
  /\ current_key_index_for_parallel = 2

\* C4: when a task of a batch ends with an unhandled exception, the batch
\* returns only with every task resolved, returns normally, and its error
\* list holds exactly one entry naming the URL of the failed task.
C4_Isolation ==
  (Batch /\ pc = "done") =>
    /\ AllResolved
    /\ response = 200
    /\ \A i \in 1..Len(tasks) :
         tasks[i].pc = "raised" =>
           Cardinality({j \in 1..Len(ret.all_errors) : ret.all_errors[j].u = tasks[i].url}) = 1

\* a spider raised, its sibling returned a page, and the batch returned
C4_Witness ==
  /\ Returned /\ req.mode = "crawl" /\ Len(tasks) = 2
  /\ tasks[1].pc = "raised" /\ tasks[2].pc = "done"
  /\ tasks[2].site_content_parts # <<>>
  /\ Len(ret.all_errors) = 1

\* C5: whatever the order in which the tasks resolve, the merged content and
\* the merged error list follow the input positions of the tasks' URLs.
C5_InputOrder ==
  Returned =>
    /\ NonDecreasing(SitesOfPieces(ret.content))
    /\ NonDecreasing(SitesOfErrors(ret.all_errors))

\* the second task resolved first, and content of both is in the result
C5_Witness ==
  /\ Returned /\ out_of_order
  /\ SitesOfPieces(ret.content) = <<1, 2>>

\* C6: the content a multi-site batch returns holds no diagnostic text: no
\* low/no-content placeholder, no "No content gathered from" sentinel, no
\* error header and no text of a task's exception.
C6_NoDiagnosticText ==
  (Returned /\ req.mode = "crawl") =>
    \A j \in 1..Len(ret.content) :
      ret.content[j].k \notin {"low", "sentinel", "major", "exc"}

\* C7: after the post-merge filter the content returned is the filtered
\* content, of length at least MIN_CONTENT_LENGTH_FOR_SUMMARY, or the fixed
\* message, which ends with the issues hint exactly when errors were recorded.
C7_ContentOrFixed ==
  Returned =>
    LET c == ret.content
        fixed == IF req.mode = "crawl" THEN NoSubstantialCrawl ELSE NoSubstantialSearch
    IN \/ c = <<fixed>> /\ ret.all_errors = <<>>
       \/ c = <<fixed, IssuesHint>> /\ ret.all_errors # <<>>
       \/ /\ \A j \in 1..Len(c) : c[j].k \notin {"no_substantial", "issues_hint"}
          /\ StrLen(c) >= MIN_CONTENT_LENGTH_FOR_SUMMARY

\* a page gave substantial text, yet too little for a summary: the fixed
\* message is returned, without the hint since nothing failed
C7_Witness ==
  /\ Returned /\ req.mode = "crawl" /\ Len(tasks) = 1
  /\ tasks[1].pc = "done"
  /\ Len(tasks[1].site_content_parts) = 1
  /\ tasks[1].site_content_parts[1][1].k = "content"
  /\ ret.content = <<NoSubstantialCrawl>>

\* C8: a page or search result whose text is not longer than half of
\* MIN_CONTENT_LENGTH_FOR_SUMMARY is no "### Content from" block of the
\* content returned.
C8_NoThinContent ==
  Returned =>
    \A j \in 1..Len(ret.content) :
      ret.content[j].k = "content" => 2 * ret.content[j].t > MIN_CONTENT_LENGTH_FOR_SUMMARY

\* one site gave text of exactly half the minimum, another gave more: only
\* the second is in the content returned
C8_Witness ==
  /\ Returned /\ req.mode = "crawl" /\ Len(tasks) = 2
  /\ tasks[1].pc = "done" /\ tasks[1].site_content_parts # <<>>
  /\ tasks[1].site_content_parts[1][1].k = "low"
  /\ 2 * tasks[1].site_content_parts[1][1].t = MIN_CONTENT_LENGTH_FOR_SUMMARY
  /\ SitesOfPieces(ret.content) = <<2>>
  /\ ret.content[1].k = "content"

\* the error string names the HTTP status st
Mentions(e, st) == e.st = st \/ e.msg.st = st

\* C9: when the proxy answers a spider's fetch with 401 there is no retry,
\* the spider stops at once, its error list holds exactly one string, that
\* string contains "401", and no further page of the site is fetched.
C9_Abort401 ==
  \A i \in 1..Len(tasks) :
    (tasks[i].kind = "spider" /\ tasks[i].last_status = 401) =>
      /\ tasks[i].pc = "done"
      /\ Len(tasks[i].fetched) = 1
      /\ Len(tasks[i].site_errors) = 1
      /\ Mentions(tasks[i].site_errors[1], 401)

\* C10: a fetch answered by a status of {429, 500, 502, 503, 504} sleeps
\* (attempt + 1) * 3 seconds and tries again while attempt < maxAttempts;
\* with the budget spent it returns a critical result that carries the last
\* HTTP status as its status code and a message reporting retry exhaustion.
C10_RetryExhaustion ==
  \A i \in 1..Len(tasks) :
    (tasks[i].kind = "fetch" /\ tasks[i].last_status \in RetryableStatuses) =>
      /\ tasks[i].pc \in {"sleep", "done"}
      /\ tasks[i].pc = "sleep" =>
           /\ tasks[i].retry_count < tasks[i].max_retries
           /\ tasks[i].delay = (tasks[i].retry_count + 1) * 3
      /\ tasks[i].pc = "done" =>
           /\ tasks[i].fetch_result.is_critical_error
           /\ tasks[i].fetch_result.status_code = tasks[i].last_status
           /\ tasks[i].fetch_result.error_message.m = "max_retries"

\* C11: for a network timeout as for a connection error, a fetch with
\* attempt < maxAttempts backs off (attempt + 1) * 2 seconds and tries again;
\* a result that carries a timeout or a connection error is returned only
\* with the attempt budget spent, and it is critical.
C11_BackoffThenCritical ==
  \A i \in 1..Len(tasks) :
    tasks[i].kind = "fetch" =>
      /\ (tasks[i].pc = "sleep" /\ tasks[i].last_status = 0) =>
           /\ tasks[i].retry_count < tasks[i].max_retries
           /\ tasks[i].delay = (tasks[i].retry_count + 1) * 2
      /\ (tasks[i].pc = "done" /\ tasks[i].fetch_result.error_message.m \in {"timeout", "network"}) =>
           tasks[i].fetch_result.is_critical_error

\* C12: with an empty credential pool no page fetch and no web search is
\* issued; an orchestrator called then returns the configuration-error result,
\* and the HTTP handler answers 503 (service unavailable).
C12_EmptyPool ==
  (req.mode \in {"crawl", "search"} /\ req.K = 0) =>
    /\ tasks = <<>>
    /\ ~searched
    /\ pc # "gather"
    /\ (pc = "done" /\ req.via = "direct") =>
         /\ ret.error = "config"
         /\ Len(ret.all_errors) = 1 /\ ret.all_errors[1].k = "config"
    /\ (pc = "done" /\ req.via = "api") => response = 503

\* the search orchestrator was called with an empty pool and has returned
C12_Witness ==
  /\ req.mode = "search" /\ req.K = 0 /\ req.via = "direct"
  /\ pc = "done" /\ ret.error = "config" /\ ~searched

\* C13: a request to the HTTP boundary ends with a failure status only when
\* the credential pool is empty; with a pool of at least one key every
\* failure of a page, site, task or of the web search is error strings in a
\* normal (200) response.
C13_FailureOnlyWithoutKeys ==
  (pc = "done" /\ req.via = "api" /\ req.K >= 1) =>
    /\ response = 200
    /\ ret.error = "none"

\* C14: whatever the outcome (every fetch failing, empty pool, failed web
\* search, no search results), the content string of the result an
\* orchestrator returns is not empty.
C14_ContentNeverEmpty ==
  (pc = "done" /\ req.mode \in {"crawl", "search"} /\ ret # NoRet) =>
    ret.content # <<>>

\* task i fetched pages, and each of them gave text below the threshold
ThinTask(i) ==
  LET t == tasks[i]
  IN IF t.kind = "spider"
     THEN /\ t.pc = "done" /\ t.fetched # <<>>
          /\ Len(t.site_content_parts) = Len(t.fetched)
          /\ \A j \in 1..Len(t.site_content_parts) : t.site_content_parts[j][1].k = "low"
     ELSE /\ t.pc = "done" /\ t.fetch_result.error_message = NoMsg
          /\ 2 * t.fetch_result.raw_response_text <= MIN_CONTENT_LENGTH_FOR_SUMMARY

\* C15: when every page fetched in a batch gives content below the minimum
\* length threshold, the content returned is the fixed no-substantial-content
\* message and all_errors holds a diagnostic entry for each of those pages, in
\* the multi-site crawl as in search-then-scrape.
C15_ThinBatch ==
  (Returned /\ \A i \in 1..Len(tasks) : ThinTask(i)) =>
    /\ ret.content # <<>>
    /\ ret.content[1] = (IF req.mode = "crawl" THEN NoSubstantialCrawl ELSE NoSubstantialSearch)
    /\ \A i \in 1..Len(tasks) :
         \E j \in 1..Len(ret.all_errors) : ret.all_errors[j].u = tasks[i].url

\* the fetch of search result i succeeded with text above the threshold
GoodResult(i) ==
  /\ tasks[i].pc = "done"
  /\ tasks[i].fetch_result.error_message = NoMsg
  /\ 2 * tasks[i].fetch_result.raw_response_text > MIN_CONTENT_LENGTH_FOR_SUMMARY

\* C16: in search-then-scrape the sources returned are exactly the launched
\* results whose fetch succeeded with text longer than the substance
\* threshold, in search-result order; a result whose fetch failed, raised or
\* gave low content is no source and has exactly one entry in all_errors.
C16_Sources ==
  (Returned /\ req.mode = "search") =>
    LET found == req.ddg_search_results
        good == {i \in 1..Len(tasks) : GoodResult(i)}
    IN /\ Len(ret.sources) = Cardinality(good)
       /\ \A j \in 1..Len(ret.sources) : \E i \in good : ret.sources[j] = found[i]
       /\ NonDecreasing([j \in 1..Len(ret.sources) |-> SiteOf(ret.sources[j])])
       /\ \A i \in good : \E j \in 1..Len(ret.sources) : ret.sources[j] = found[i]
       /\ \A i \in 1..Len(tasks) :
            Cardinality({j \in 1..Len(ret.all_errors) : ret.all_errors[j].u = found[i]})
              = (IF i \in good THEN 0 ELSE 1)
       /\ Len(ret.all_errors) = Len(tasks) - Cardinality(good)

\* the first result gave low content, the second substantial text: only the
\* second is a source
C16_Witness ==
  /\ Returned /\ req.mode = "search" /\ Len(tasks) = 2
  /\ tasks[1].pc = "done" /\ tasks[1].fetch_result.error_message = NoMsg
  /\ ~GoodResult(1) /\ GoodResult(2)
  /\ ret.sources = <<req.ddg_search_results[2]>>
  /\ Len(ret.all_errors) = 1

\* C17: when the web search gives no result and the pool is not empty, the
\* search-then-scrape result is the fixed no-results message with no sources
\* and no errors, and no page fetch is issued.
C17_NoResults ==
  (req.mode = "search" /\ req.K >= 1 /\ req.search_ok /\ req.ddg_search_results = <<>>) =>
    /\ tasks = <<>>
    /\ pc # "gather"
    /\ pc = "done" =>
         /\ searched
         /\ ret.error = "none"
         /\ ret.content = <<NoResultsMessage>>
         /\ ret.sources = <<>>
         /\ ret.all_errors = <<>>
         /\ response = 200

\* the search ran, found nothing, and the request was answered
C17_Witness ==
  /\ req.mode = "search" /\ req.K = 2 /\ req.search_ok /\ req.ddg_search_results = <<>>
  /\ pc = "done" /\ searched /\ response = 200

\* C18: a batch returns only after each of its tasks has resolved (returned
\* or raised), and, every fetch attempt being answered in the end, every
\* batch returns in the end.
C18_ReturnsAfterAll ==
  /\ [](Returned => \A i \in 1..Len(tasks) : tasks[i].pc \in {"done", "raised"})
  /\ ((Batch /\ pc = "gather") ~> (Batch /\ pc = "done"))

\* a batch has returned whose first task ended with a handled fetch error,
\* after its second task had raised
C18_Witness ==
  /\ Returned /\ req.mode = "crawl" /\ Len(tasks) = 2 /\ out_of_order
  /\ tasks[1].pc = "done" /\ tasks[1].site_errors # <<>>
  /\ tasks[2].pc = "raised"

C20_LinksFollowed ==
  \A i \in 1..Len(tasks) :
    LET t == tasks[i]
    IN (/\ t.kind = "spider"
        /\ t.fetch_result.error_message = NoMsg
        /\ t.fetch_result.raw_response_text > 0
        /\ t.fetch_result.final_url = t.current_url
        /\ t.current_d < t.max_depth) =>
         t.pc # "raised"

\* ------------------------------------------------------------------ C21
Spiders == {i \in 1..Len(tasks) : tasks[i].kind = "spider"}

UrlsOf(entries) == [j \in 1..Len(entries) |-> entries[j][1]]

NoRepeat(q) == \A a, b \in 1..Len(q) : a # b => q[a] # q[b]

\* C21: within one site-spider run no URL is enqueued more than once and no
\* URL is fetched more than once; a link equal to a visited URL or to a URL
\* already in the frontier is never appended, so every entry of the frontier
\* is a URL not yet visited.
C21_EnqueuedOnce ==
  \A i \in Spiders :
    LET t == tasks[i]
    IN /\ NoRepeat(UrlsOf(t.enqueued))
       /\ NoRepeat(UrlsOf(t.fetched))
       /\ NoRepeat(UrlsOf(t.queue))
       /\ \A j \in 1..Len(t.queue) : t.queue[j][1] \notin t.visited

\* a page at depth 1 linked back to a visited URL and to a URL that was
\* already waiting in the frontier; the frontier had room, and neither went
\* in a second time
C21_Witness ==
  \E i \in Spiders :
    LET t == tasks[i]
    IN /\ t.current_d = 1 /\ Len(t.fetched) = 2 /\ t.current_d < t.max_depth
       /\ HasRoom(t.visited, t.queue, t.max_links)
       /\ \E j \in 1..Len(t.internal_links) : t.internal_links[j] \in t.visited
       /\ \E j \in 1..Len(t.internal_links), k \in 1..Len(t.queue) :
            t.queue[k] = <<t.internal_links[j], 1>>

\* ------------------------------------------------------------------ C22
PosIn(q, e) == CHOOSE j \in 1..Len(q) : q[j] = e

\* the pages fetched so far, followed by the entries still waiting
FetchOrder(t) == t.fetched \o t.queue

\* C22: within one site spider pages are fetched in FIFO frontier order: the
\* depths of successively fetched pages never decrease, and pages of the same
\* depth are fetched in the order in which they were enqueued; the entries
\* still waiting continue that order.
C22_FifoOrder ==
  \A i \in Spiders :
    LET t == tasks[i]
        order == FetchOrder(t)
    IN /\ \A a \in 1..Len(order) : \E j \in 1..Len(t.enqueued) : t.enqueued[j] = order[a]
       /\ \A a, b \in 1..Len(order) :
            a < b => /\ order[a][2] <= order[b][2]
                     /\ PosIn(t.enqueued, order[a]) < PosIn(t.enqueued, order[b])

\* after the base page, two pages of depth 1 were fetched one after the other
C22_Witness ==
  \E i \in Spiders :
    LET t == tasks[i]
    IN /\ Len(t.fetched) = 3
       /\ t.fetched[1][2] = 0 /\ t.fetched[2][2] = 1 /\ t.fetched[3][2] = 1
       /\ t.enqueued = t.fetched

\* ------------------------------------------------------------------ C23
\* 1.5 x max_links rounded up
SoftCap(max_links) == (3 * max_links + 1) \div 2

\* C23: a link is appended to the frontier only while visited plus queued is
\* strictly below 1.5 x the page budget, so for a spider with a budget of at
\* least 1 the number of visited URLs plus queued entries is at most 1.5 x the
\* budget rounded up.
C23_SoftCap ==
  \A i \in Spiders :
    LET t == tasks[i]
    IN t.max_links >= 1 => Cardinality(t.visited) + Len(t.queue) <= SoftCap(t.max_links)

\* the page offered a link that was neither visited nor queued, and the
\* frontier, full to the cap, did not take it
C23_Witness ==
  \E i \in Spiders :
    LET t == tasks[i]
    IN /\ t.max_links >= 1
       /\ Cardinality(t.visited) + Len(t.queue) = SoftCap(t.max_links)
       /\ \E j \in 1..Len(t.internal_links) :
            /\ t.internal_links[j] \notin t.visited
            /\ \A k \in 1..Len(t.queue) : t.queue[k][1] # t.internal_links[j]

\* ------------------------------------------------------------------ C24
\* the loop was left by its condition (line 140) or by the break (line 160)
LoopLeft(t) ==
  \/ t.queue = <<>>
  \/ ~WithinPageBudget(t.processed_page_count, t.max_links)
  \/ (t.fetch_result # NoFetchResult /\ t.fetch_result.is_critical_error)

\* C24: a site-spider run ends in no other way than by leaving its loop with
\* the frontier empty, the page budget reached or a critical fetch error, and
\* returning its result (the construction of the HTTP client is taken to
\* succeed).
C24_StopsThreeWays ==
  \A i \in Spiders :
    LET t == tasks[i]
    IN (Resolved(t) /\ t.exc # "ClientError") => (t.pc = "done" /\ LoopLeft(t))

\* ------------------------------------------------------------------ C25
\* C25: when two batch invocations overlap in time, the key assignment of each
\* is unaffected by the other: in each batch the i-th launched task (counting
\* from 0) holds pool[i mod K], and each batch launches min(targets, K,
\* MAX_CONCURRENT_SCRAPES) tasks.
C25_OverlapKeys ==
  \A b \in Batches :
    LET pool == VALID_SCRAPER_API_KEYS(req[b].K)
    IN /\ \A i \in 1..Len(tasks[b]) : tasks[b][i].key = pool[((i - 1) % req[b].K) + 1]
       /\ pc[b] \in {"gather", "done"} =>
            Len(tasks[b]) = MinOf3(Len(Targets(req[b])), req[b].K, MAX_CONCURRENT_SCRAPES)

\* two searches in flight together, each with two tasks: the second was
\* launched while a fetch of the first was suspended, and one of its own
\* fetches has ended before the first batch returned
C25_Witness ==
  /\ pc = <<"gather", "gather">>
  /\ req[1].mode = "search" /\ req[2].mode = "search"
  /\ Len(tasks[1]) = 2 /\ Len(tasks[2]) = 2
  /\ tasks[1][1].pc = "http" /\ tasks[2][2].pc = "done"
  /\ tasks[1][2].key # tasks[1][1].key

\* ------------------------------------------------------------------ C26
\* C26: every URL the link filter returns is an http or https URL whose scheme
\* and host both equal those of the base URL.
C26_SameOrigin ==
  (pc = "done" /\ req.mode = "links") =>
    \A u \in tasks[1].links :
      /\ u.scheme \in {"http", "https"}
      /\ u.scheme = req.base_url.scheme
      /\ u.netloc = req.base_url.netloc

\* ------------------------------------------------------------------ C27
\* the blocks and the error strings that a spider holds for page u
PartsFor(t, u) == {j \in 1..Len(t.site_content_parts) : t.site_content_parts[j][1].u = u}

ErrorsFor(t, u) == {j \in 1..Len(t.site_errors) : t.site_errors[j].u = u}

\* the loop is at its head (or has left it), not inside an iteration
AtIterationBoundary(t) == t.pc \in {"ready", "done"}

\* C27: the processed-page count of a spider equals the size of its visited
\* set and the number of fetches issued; at every iteration boundary each
\* fetched page has contributed exactly one item, a block of the content
\* parts or a string of the error list, never both and never neither, and
\* nothing else is in the two lists.
C27_OneItemPerPage ==
  \A i \in Spiders :
    LET t == tasks[i]
    IN /\ t.processed_page_count = Cardinality(t.visited)
       /\ t.processed_page_count = Len(t.fetched)
       /\ AtIterationBoundary(t) =>
            /\ \A j \in 1..Len(t.fetched) :
                 Cardinality(PartsFor(t, t.fetched[j][1]))
                   + Cardinality(ErrorsFor(t, t.fetched[j][1])) = 1
            /\ Len(t.site_content_parts) + Len(t.site_errors) = t.processed_page_count

\* a spider with a budget of one page whose only fetch failed without being
\* critical: the page is counted, its one item is an error string, and the
\* loop has ended on the budget
C27_Witness ==
  \E i \in Spiders :
    LET t == tasks[i]
    IN /\ t.pc = "done" /\ t.max_links = 1 /\ t.processed_page_count = 1
       /\ FetchFailed(t.fetch_result) /\ ~AbortsSite(t.fetch_result)
       /\ Len(t.site_errors) = 1 /\ t.site_content_parts = <<>>

====
